---- MODULE Spec2Model ----
(***************************************************************************)
(* Jobly: companies and jobs behind a REST API.  The model follows the     *)
(* partial-update SQL builder (helpers/sql.js), the Company and Job        *)
(* access layers (models/company.js, models/job.js), the auth middleware   *)
(* (middleware/auth.js) and the route handlers (routes/companies.js,       *)
(* routes/jobs.js).  The relational store is modelled by what the SQL      *)
(* statements sent to it do to the two tables.                             *)
(***************************************************************************)
EXTENDS Integers, Sequences, FiniteSets, TLC

VARIABLES
    companies,   \* table companies: handle -> row (by column name)
    jobs,        \* table jobs: id -> row (by column name)
    jobIdSeq,    \* the next id the store assigns to a job
    last,        \* the last call made and what it returned or threw
    http,        \* the request in flight through the middleware chain
    calls,       \* concurrent model calls: where each one stands between its statements
    history      \* every state the two tables have been in

vars == <<companies, jobs, jobIdSeq, last, http, calls, history>>

(***************************************************************************)
(* JavaScript values.  A value carries its type, so that null, undefined,  *)
(* 0 and the empty string stay distinct and only truthiness merges them.   *)
(* A string the code matches by pattern is a sequence of characters        *)
(* ("text"); a string the code only passes along is atomic ("str").        *)
(***************************************************************************)
Null == [t |-> "null"]
Undefined == [t |-> "undefined"]
Num(n) == [t |-> "num", v |-> n]
Str(s) == [t |-> "str", v |-> s]
Text(cs) == [t |-> "text", v |-> cs]
Bool(b) == [t |-> "bool", v |-> b]
Arr(xs) == [t |-> "array", v |-> xs]
NaN == [t |-> "nan"]

Truthy(x) ==
    CASE x.t = "null" -> FALSE
      [] x.t = "undefined" -> FALSE
      [] x.t = "num" -> x.v # 0
      [] x.t = "str" -> x.v # ""
      [] x.t = "text" -> Len(x.v) # 0
      [] x.t = "bool" -> x.v
      [] x.t = "object" -> TRUE
      [] x.t = "array" -> TRUE
      [] x.t = "nan" -> FALSE

\* An object is the sequence of its own <<key, value>> entries in insertion order.
ObjectKeys(obj) == [i \in 1..Len(obj) |-> obj[i][1]]
ObjectValues(obj) == [i \in 1..Len(obj) |-> obj[i][2]]
HasKey(obj, key) == \E i \in 1..Len(obj) : obj[i][1] = key
ValueOf(obj, key) == obj[CHOOSE i \in 1..Len(obj) : obj[i][1] = key][2]

DeleteNothing(obj, key) == obj

\* delete obj[key]
DeleteKey(obj, key) == SelectSeq(obj, LAMBDA e : e[1] # key)

(***************************************************************************)
(* SQL text is a sequence of tokens: "col" is Ident(col), $n is Param(n).  *)
(***************************************************************************)
Ident(col) == [k |-> "ident", name |-> col]
Param(n) == [k |-> "param", n |-> n]
EqSign == [k |-> "="]
CommaSpace == [k |-> ", "]

RECURSIVE Join(_, _)
Join(parts, sep) ==
    IF Len(parts) = 0 THEN <<>>
    ELSE IF Len(parts) = 1 THEN parts[1]
    ELSE parts[1] \o <<sep>> \o Join(Tail(parts), sep)

(***************************************************************************)
(* helpers/sql.js                                                          *)
(***************************************************************************)
\* jsToSql[colName] || colName
ColumnFor(jsToSql, colName) ==
    LET mapped == IF colName \in DOMAIN jsToSql THEN Str(jsToSql[colName])
                  ELSE Undefined
    IN  IF Truthy(mapped) THEN mapped.v ELSE colName

SetFragmentFromZero(jsToSql, colName, idx) ==
    <<Ident(ColumnFor(jsToSql, colName)), EqSign, Param(idx)>>

\* `"${jsToSql[colName] || colName}"=$${idx + 1}`
SetFragment(jsToSql, colName, idx) ==
    <<Ident(ColumnFor(jsToSql, colName)), EqSign, Param(idx + 1)>>

SqlForPartialUpdateNoCheck(dataToUpdate, jsToSql) ==
    LET keys == ObjectKeys(dataToUpdate)
        cols == [i \in 1..Len(keys) |-> SetFragment(jsToSql, keys[i], i - 1)]
    IN  [err |-> "none",
         setCols |-> Join(cols, CommaSpace),
         values |-> ObjectValues(dataToUpdate)]

SqlForPartialUpdateInline(dataToUpdate, jsToSql) ==
    LET keys == ObjectKeys(dataToUpdate) IN
    IF Len(keys) = 0
    THEN [err |-> "BadRequestError", message |-> "No data"]
    ELSE LET cols == [i \in 1..Len(keys) |->
                        <<Ident(ColumnFor(jsToSql, keys[i])), EqSign,
                          [k |-> "literal", v |-> dataToUpdate[i][2]]>>]
         IN  [err |-> "none",
              setCols |-> Join(cols, CommaSpace),
              values |-> ObjectValues(dataToUpdate)]

SqlForPartialUpdate(dataToUpdate, jsToSql) ==
    LET keys == ObjectKeys(dataToUpdate) IN
    IF Len(keys) = 0
    THEN [err |-> "BadRequestError", message |-> "No data"]
    ELSE LET cols == [i \in 1..Len(keys) |-> SetFragment(jsToSql, keys[i], i - 1)]
         IN  [err |-> "none",
              setCols |-> Join(cols, CommaSpace),
              values |-> ObjectValues(dataToUpdate)]

\* A number written in decimal, and read back by the store.
DigitChars == <<"0", "1", "2", "3", "4", "5", "6", "7", "8", "9">>
RECURSIVE Decimal(_)
Decimal(n) == IF n < 10 THEN <<DigitChars[n + 1]>>
              ELSE Decimal(n \div 10) \o <<DigitChars[(n % 10) + 1]>>
DigitValue(c) == (CHOOSE d \in 1..10 : DigitChars[d] = c) - 1
RECURSIVE ParseDecimal(_)
ParseDecimal(cs) == IF Len(cs) = 1 THEN DigitValue(cs[1])
                    ELSE 10 * ParseDecimal(SubSeq(cs, 1, Len(cs) - 1)) + DigitValue(cs[Len(cs)])

\* String(array): the elements' texts with "," between them.
RECURSIVE JoinComma(_)
JoinComma(xs) ==
    IF Len(xs) = 0 THEN <<>>
    ELSE IF Len(xs) = 1 THEN xs[1].v
    ELSE xs[1].v \o <<",">> \o JoinComma(Tail(xs))

\* Number(text): the empty text is 0, a run of digits is its value, and
\* anything else is NaN.
StringToNumber(cs) ==
    IF Len(cs) = 0 THEN Num(0)
    ELSE IF \A i \in 1..Len(cs) : \E d \in 1..10 : DigitChars[d] = cs[i]
         THEN Num(ParseDecimal(cs))
    ELSE NaN

\* +x, Number(x)
ToNumber(x) ==
    CASE x.t = "undefined" -> NaN
      [] x.t = "null" -> Num(0)
      [] x.t = "num" -> x
      [] x.t = "nan" -> x
      [] x.t = "text" -> StringToNumber(x.v)
      [] x.t = "array" -> StringToNumber(JoinComma(x.v))

\* isNaN(x)
IsNaN(x) == ToNumber(x).t = "nan"

(***************************************************************************)
(* The store.  A row maps column names to values; the primary key is the   *)
(* table's index.  Each operator below is what one statement of the code   *)
(* does to a table and returns as result.rows.                             *)
(***************************************************************************)
NoRows == <<>>

\* The key a parameter selects: an id sent as text is read as an integer.
KeyOf(x) == IF x.t = "text" THEN ParseDecimal(x.v) ELSE x.v

\* The column := $n assignments of a SET clause.
SetAssignments(setCols) ==
    { <<setCols[i].name, setCols[i + 2].n>> :
        i \in { j \in 1..Len(setCols) : setCols[j].k = "ident" } }

DbUpdateNoWhere(table, setCols, whereParam, params) ==
    LET key == KeyOf(params[whereParam])
        asg == SetAssignments(setCols)
        new(old) == [c \in DOMAIN old |->
                       IF \E a \in asg : a[1] = c
                       THEN params[(CHOOSE a \in asg : a[1] = c)[2]]
                       ELSE old[c]]
    IN  IF key \notin DOMAIN table
        THEN [table |-> table, rows |-> NoRows]
        ELSE [table |-> [k \in DOMAIN table |-> new(table[k])],
              rows |-> <<[key |-> key, row |-> new(table[key])]>>]

\* UPDATE table SET setCols WHERE key = $whereParam RETURNING key, row
DbUpdate(table, setCols, whereParam, params) ==
    LET key == KeyOf(params[whereParam])
        asg == SetAssignments(setCols)
    IN  IF key \notin DOMAIN table
        THEN [table |-> table, rows |-> NoRows]
        ELSE LET old == table[key]
                 new == [c \in DOMAIN old |->
                           IF \E a \in asg : a[1] = c
                           THEN params[(CHOOSE a \in asg : a[1] = c)[2]]
                           ELSE old[c]]
             IN  [table |-> [table EXCEPT ![key] = new],
                  rows |-> <<[key |-> key, row |-> new]>>]

\* RETURNING handle, name, description, num_employees AS "numEmployees", logo_url AS "logoUrl"
CompanyRecord(r) ==
    [handle |-> Str(r.key),
     name |-> r.row.name,
     description |-> r.row.description,
     numEmployees |-> r.row.num_employees,
     logoUrl |-> r.row.logo_url]

\* RETURNING id, title, salary, equity, company_handle AS "companyHandle"
JobRecord(r) ==
    [id |-> Num(r.key),
     title |-> r.row.title,
     salary |-> r.row.salary,
     equity |-> r.row.equity,
     companyHandle |-> r.row.company_handle]

(***************************************************************************)
(* models/company.js, models/job.js: update                                *)
(***************************************************************************)
CompanyJsToSql == [numEmployees |-> "num_employees", logoUrl |-> "logo_url"]
JobJsToSql == [companyHandle |-> "company_handle"]

\* What a call leaves behind: the tables, the error thrown ("none": it
\* returned), the value returned, and how many statements reached the store.
Outcome(cs, js, err, ret, queries) ==
    [companies |-> cs, jobs |-> js, err |-> err, ret |-> ret, queries |-> queries]

CompanyUpdateUnchecked(cs, js, handle, data) ==
    LET sql == SqlForPartialUpdate(data, CompanyJsToSql) IN
    IF sql.err # "none" THEN Outcome(cs, js, sql.err, Undefined, 0)
    ELSE LET handleVarIdx == Len(sql.values) + 1
             result == DbUpdate(cs, sql.setCols, handleVarIdx,
                                Append(sql.values, handle))
         IN  IF Len(result.rows) = 0
             THEN Outcome(result.table, js, "none", Undefined, 1)
             ELSE Outcome(result.table, js, "none", CompanyRecord(result.rows[1]), 1)

CompanyUpdate(cs, js, handle, data) ==
    LET sql == SqlForPartialUpdate(data, CompanyJsToSql) IN
    IF sql.err # "none" THEN Outcome(cs, js, sql.err, Undefined, 0)
    ELSE LET handleVarIdx == Len(sql.values) + 1
             result == DbUpdate(cs, sql.setCols, handleVarIdx,
                                Append(sql.values, handle))
         IN  IF Len(result.rows) = 0
             THEN Outcome(result.table, js, "NotFoundError", Undefined, 1)
             ELSE Outcome(result.table, js, "none", CompanyRecord(result.rows[1]), 1)

JobUpdateKeepingHandle(cs, js, id, data) ==
    LET sql == SqlForPartialUpdate(data, JobJsToSql)
    IN  IF sql.err # "none" THEN Outcome(cs, js, sql.err, Undefined, 0)
        ELSE LET idx == Len(sql.values) + 1
                 result == DbUpdate(js, sql.setCols, idx, Append(sql.values, id))
             IN  IF Len(result.rows) = 0
                 THEN Outcome(cs, result.table, "NotFoundError", Undefined, 1)
                 ELSE Outcome(cs, result.table, "none", JobRecord(result.rows[1]), 1)

JobUpdate(cs, js, id, data) ==
    LET dataToChange == DeleteKey(data, "companyHandle")
        sql == SqlForPartialUpdate(dataToChange, JobJsToSql)
    IN  IF sql.err # "none" THEN Outcome(cs, js, sql.err, Undefined, 0)
        ELSE LET idx == Len(sql.values) + 1
                 result == DbUpdate(js, sql.setCols, idx, Append(sql.values, id))
             IN  IF Len(result.rows) = 0
                 THEN Outcome(cs, result.table, "NotFoundError", Undefined, 1)
                 ELSE Outcome(cs, result.table, "none", JobRecord(result.rows[1]), 1)

(***************************************************************************)
(* What the store does with a SELECT: patterns, comparisons, ordering      *)
(***************************************************************************)
Lower(c) ==
    CASE c = "C" -> "c"
      [] c = "T" -> "t"
      [] c = "N" -> "n"
      [] OTHER -> c

\* text LIKE pattern, case folded: % matches any run of characters, _ any one.
RECURSIVE LikeMatch(_, _)
LikeMatch(text, pattern) ==
    IF Len(pattern) = 0 THEN Len(text) = 0
    ELSE IF Head(pattern) = "%"
         THEN \/ LikeMatch(text, Tail(pattern))
              \/ Len(text) > 0 /\ LikeMatch(Tail(text), pattern)
    ELSE /\ Len(text) > 0
         /\ Head(pattern) = "_" \/ Lower(Head(pattern)) = Lower(Head(text))
         /\ LikeMatch(Tail(text), Tail(pattern))

ILike(value, pattern) ==
    value.t = "text" /\ pattern.t = "text" /\ LikeMatch(value.v, pattern.v)

\* `${x}`
TemplateString(x) ==
    CASE x.t = "num" -> Text(Decimal(x.v))
      [] x.t = "array" -> Text(JoinComma(x.v))
      [] OTHER -> x

\* A parameter bound to an integer column.
AsInteger(x) == IF x.t = "text" THEN Num(ParseDecimal(x.v)) ELSE x

\* A NUMERIC as the store returns it is its decimal text; it is > 0 when a digit is.
NumericPositive(value) ==
    value.t = "text" /\ \E i \in 1..Len(value.v) : value.v[i] \in {"1", "2", "3", "4", "5", "6", "7", "8", "9"}

\* WHERE and AND conditions, as tokens of the clause.
Where == [k |-> "WHERE "]
And == [k |-> "AND "]
Cond(col, op, arg) == [k |-> "cond", col |-> col, op |-> op, arg |-> arg]
Zero == [k |-> "0"]

\* Whether a row passes one condition; a NULL column passes none.
CondHolds(row, cond, args) ==
    LET value == row[cond.col] IN
    CASE cond.op = "ILIKE" -> ILike(value, args[cond.arg.n])
      [] cond.op = ">=" -> value.t = "num" /\ value.v >= AsInteger(args[cond.arg.n]).v
      [] cond.op = "<=" -> value.t = "num" /\ value.v <= AsInteger(args[cond.arg.n]).v
      [] cond.op = ">" -> NumericPositive(value)

\* SELECT ... FROM table whereClause: the keys of the rows selected.
DbSelectKeys(table, whereClause, args) ==
    { key \in DOMAIN table :
        \A i \in 1..Len(whereClause) :
            whereClause[i].k = "cond" => CondHolds(table[key], whereClause[i], args) }

\* The order of text under the store's collation (here: by code point).
CharRank(c) ==
    CASE c = "%" -> 37 [] c = "0" -> 48 [] c = "1" -> 49 [] c = "2" -> 50
      [] c = "C" -> 67 [] c = "N" -> 78 [] c = "T" -> 84 [] c = "_" -> 95
      [] c = "c" -> 99 [] c = "e" -> 101 [] c = "n" -> 110 [] c = "t" -> 116
      [] c = "w" -> 119

RECURSIVE TextLeq(_, _)
TextLeq(a, b) ==
    IF Len(a) = 0 THEN TRUE
    ELSE IF Len(b) = 0 THEN FALSE
    ELSE IF Head(a) = Head(b) THEN TextLeq(Tail(a), Tail(b))
    ELSE CharRank(Head(a)) < CharRank(Head(b))

\* Every order in which the keys can come back under ORDER BY: sorted, ties either way.
Orderings(keys, Leq(_, _)) ==
    { s \in [1..Cardinality(keys) -> keys] :
        /\ \A i, j \in DOMAIN s : i # j => s[i] # s[j]
        /\ \A i, j \in DOMAIN s : i < j => Leq(s[i], s[j]) }

(***************************************************************************)
(* models/company.js, models/job.js: findAll                               *)
(***************************************************************************)
\* a parameter left out takes its default, null
Default(x, d) == IF x.t = "undefined" THEN d ELSE x

NotNullishTruthy(x) == Truthy(x)

\* x != null
NotNullish(x) == x.t \notin {"null", "undefined"}

\* a < b
JsLess(a, b) == a.t = "num" /\ b.t = "num" /\ a.v < b.v

ConnectiveAlwaysWhere(argIndex) == Where

\* whereClause += argIndex == 1 ? "WHERE " : "AND "
Connective(argIndex) == IF argIndex = 1 THEN Where ELSE And

\* One `if (filter) { ... }` block of findAll: q is [whereClause, args, argIndex].
AddFilter(q, filter, col, op, arg) ==
    IF Truthy(filter)
    THEN [whereClause |-> q.whereClause \o <<Connective(q.argIndex), Cond(col, op, Param(q.argIndex))>>,
          args |-> Append(q.args, arg),
          argIndex |-> q.argIndex + 1]
    ELSE q

EmptyQuery == [whereClause |-> <<>>, args |-> <<>>, argIndex |-> 1]

CompanyFindAllQuery(nameFilter, minEmployees, maxEmployees) ==
    LET q1 == AddFilter(EmptyQuery, nameFilter, "name", "ILIKE",
                        Text(<<"%">> \o nameFilter.v \o <<"%">>))
        q2 == AddFilter(q1, minEmployees, "num_employees", ">=", minEmployees)
    IN  AddFilter(q2, maxEmployees, "num_employees", "<=", maxEmployees)

\* The outcomes of Company.findAll: one for each order the store may return ties in.
CompanyFindAll(cs, js, nameFilterArg, minEmployeesArg, maxEmployeesArg) ==
    LET nameFilter == Default(nameFilterArg, Null)
        minEmployees == Default(minEmployeesArg, Null)
        maxEmployees == Default(maxEmployeesArg, Null)
    IN  IF /\ NotNullish(minEmployees)
           /\ NotNullish(maxEmployees)
           /\ JsLess(maxEmployees, minEmployees)
        THEN { Outcome(cs, js, "BadRequestError", Undefined, 0) }
        ELSE LET q == CompanyFindAllQuery(nameFilter, minEmployees, maxEmployees)
                 keys == DbSelectKeys(cs, q.whereClause, q.args)
                 ByName(a, b) == TextLeq(cs[a].name.v, cs[b].name.v)
             IN  { Outcome(cs, js, "none",
                           [i \in DOMAIN order |->
                               CompanyRecord([key |-> order[i], row |-> cs[order[i]]])],
                           1) :
                   order \in Orderings(keys, ByName) }

JobFindAllQuery(titleFilter, minSalary, hasEquity) ==
    LET q1 == AddFilter(EmptyQuery, titleFilter, "title", "ILIKE",
                        Text(<<"%">> \o titleFilter.v \o <<"%">>))
        q2 == AddFilter(q1, minSalary, "salary", ">=", TemplateString(minSalary))
    IN  IF Truthy(hasEquity)
        THEN [q2 EXCEPT !.whereClause = @ \o <<Connective(q2.argIndex), Cond("equity", ">", Zero)>>]
        ELSE q2

JobFindAll(cs, js, titleFilterArg, minSalaryArg, hasEquityArg) ==
    LET titleFilter == Default(titleFilterArg, Null)
        minSalary == Default(minSalaryArg, Null)
        hasEquity == Default(hasEquityArg, Null)
        q == JobFindAllQuery(titleFilter, minSalary, hasEquity)
        keys == DbSelectKeys(js, q.whereClause, q.args)
        ById(a, b) == a <= b
    IN  { Outcome(cs, js, "none",
                  [i \in DOMAIN order |-> JobRecord([key |-> order[i], row |-> js[order[i]]])],
                  1) :
          order \in Orderings(keys, ById) }

(***************************************************************************)
(* models/company.js: create                                               *)
(***************************************************************************)
DbInsertCompanyNoKey(table, params) ==
    LET key == params[1].v
        row == [name |-> params[2], description |-> params[3],
                num_employees |-> params[4], logo_url |-> params[5]]
    IN  [table |-> table @@ (key :> row),
         rows |-> <<[key |-> key, row |-> row]>>, err |-> "none"]

\* INSERT INTO companies ... RETURNING ...: the handle is the primary key.
DbInsertCompany(table, params) ==
    LET key == params[1].v
        row == [name |-> params[2], description |-> params[3],
                num_employees |-> params[4], logo_url |-> params[5]]
    IN  IF key \in DOMAIN table
        THEN [table |-> table, rows |-> NoRows, err |-> "unique_violation"]
        ELSE [table |-> table @@ (key :> row),
              rows |-> <<[key |-> key, row |-> row]>>, err |-> "none"]

CompanyCreateNoPreCheck(cs, js, data) ==
    LET result == DbInsertCompany(cs, <<data.handle, data.name, data.description,
                                        data.numEmployees, data.logoUrl>>)
    IN  IF result.err # "none"
        THEN Outcome(cs, js, result.err, Undefined, 1)
        ELSE Outcome(result.table, js, "none", CompanyRecord(result.rows[1]), 1)

CompanyCreate(cs, js, data) ==
    LET duplicateCheck == IF data.handle.v \in DOMAIN cs THEN <<data.handle>> ELSE NoRows
    IN  IF Len(duplicateCheck) > 0
        THEN Outcome(cs, js, "BadRequestError", Undefined, 1)
        ELSE LET result == DbInsertCompany(cs, <<data.handle, data.name, data.description,
                                                 data.numEmployees, data.logoUrl>>)
             IN  IF result.err # "none"
                 THEN Outcome(cs, js, result.err, Undefined, 2)
                 ELSE Outcome(result.table, js, "none", CompanyRecord(result.rows[1]), 2)

(***************************************************************************)
(* models/company.js: get, remove; models/job.js: create, get, remove      *)
(***************************************************************************)
\* SELECT id, title, salary, equity FROM jobs WHERE company_handle = $1 ORDER BY id
JobSummary(r) ==
    [id |-> Num(r.key), title |-> r.row.title, salary |-> r.row.salary,
     equity |-> r.row.equity]

RECURSIVE Ascending(_)
Ascending(ids) ==
    IF ids = {} THEN <<>>
    ELSE LET least == CHOOSE i \in ids : \A j \in ids : i <= j
         IN  <<least>> \o Ascending(ids \ {least})

DbSelectJobsOfAny(js, handle) ==
    LET ids == Ascending(DOMAIN js)
    IN  [n \in DOMAIN ids |-> JobSummary([key |-> ids[n], row |-> js[ids[n]]])]

DbSelectJobsOf(js, handle) ==
    LET ids == Ascending({ i \in DOMAIN js : js[i].company_handle = handle })
    IN  [n \in DOMAIN ids |-> JobSummary([key |-> ids[n], row |-> js[ids[n]]])]

CompanyGet(cs, js, handle) ==
    IF handle.v \notin DOMAIN cs
    THEN Outcome(cs, js, "NotFoundError", Undefined, 1)
    ELSE LET company == CompanyRecord([key |-> handle.v, row |-> cs[handle.v]])
             jobRes == DbSelectJobsOf(js, handle)
         IN  Outcome(cs, js, "none", company @@ [jobs |-> jobRes], 2)

\* Deleting a company deletes its jobs (the foreign key cascades).
CascadeJobs(js, handle) ==
    [i \in { j \in DOMAIN js : js[j].company_handle # handle } |-> js[i]]

\* DELETE FROM companies WHERE handle = $1 RETURNING handle
CompanyRemove(cs, js, handle) ==
    IF handle.v \notin DOMAIN cs
    THEN Outcome(cs, js, "NotFoundError", Undefined, 1)
    ELSE Outcome([h \in DOMAIN cs \ {handle.v} |-> cs[h]], CascadeJobs(js, handle),
                 "none", Undefined, 1)

\* jobs.company_handle references companies.handle.
ForeignKeyHolds(cs, handle) == handle.t = "str" /\ handle.v \in DOMAIN cs

\* A parameter bound to a NUMERIC column, as the store gives it back.
AsNumeric(x) == IF x.t = "num" THEN Text(Decimal(x.v)) ELSE x

JobCreateCountingIds(cs, js, seq, data) ==
    LET id == Cardinality(DOMAIN js) + 1 IN
    IF ~ForeignKeyHolds(cs, data.companyHandle)
    THEN Outcome(cs, js, "foreign_key_violation", Undefined, 1) @@ [seq |-> seq + 1]
    ELSE LET row == [title |-> data.title, salary |-> AsInteger(data.salary),
                     equity |-> AsNumeric(data.equity),
                     company_handle |-> data.companyHandle]
         IN  Outcome(cs, js @@ (id :> row), "none",
                     JobRecord([key |-> id, row |-> row]), 1) @@ [seq |-> seq + 1]

\* INSERT INTO jobs (title, salary, equity, company_handle) VALUES ($1, $2, $3, $4)
\* RETURNING ...: the store draws the id from its sequence.
JobCreate(cs, js, seq, data) ==
    IF ~ForeignKeyHolds(cs, data.companyHandle)
    THEN Outcome(cs, js, "foreign_key_violation", Undefined, 1) @@ [seq |-> seq + 1]
    ELSE LET row == [title |-> data.title, salary |-> AsInteger(data.salary),
                     equity |-> AsNumeric(data.equity),
                     company_handle |-> data.companyHandle]
         IN  Outcome(cs, js @@ (seq :> row), "none",
                     JobRecord([key |-> seq, row |-> row]), 1) @@ [seq |-> seq + 1]

JobGetUnchecked(cs, js, id) ==
    LET key == AsInteger(id).v IN
    IF key \notin DOMAIN js
    THEN Outcome(cs, js, "none", Undefined, 1)
    ELSE Outcome(cs, js, "none", JobRecord([key |-> key, row |-> js[key]]), 1)

\* SELECT ... FROM jobs WHERE id = $1
JobGet(cs, js, id) ==
    LET key == AsInteger(id).v IN
    IF key \notin DOMAIN js
    THEN Outcome(cs, js, "NotFoundError", Undefined, 1)
    ELSE Outcome(cs, js, "none", JobRecord([key |-> key, row |-> js[key]]), 1)

JobRemoveNoWhere(cs, js, id) ==
    LET key == AsInteger(id).v IN
    IF key \notin DOMAIN js
    THEN Outcome(cs, js, "NotFoundError", Undefined, 1)
    ELSE Outcome(cs, [i \in {} |-> js[i]], "none", [removed |-> [id |-> Num(key)]], 1)

\* DELETE FROM jobs WHERE id = $1 RETURNING id
JobRemove(cs, js, id) ==
    LET key == AsInteger(id).v IN
    IF key \notin DOMAIN js
    THEN Outcome(cs, js, "NotFoundError", Undefined, 1)
    ELSE Outcome(cs, [i \in DOMAIN js \ {key} |-> js[i]], "none",
                 [removed |-> [id |-> Num(key)]], 1)

(***************************************************************************)
(* middleware/auth.js                                                      *)
(***************************************************************************)
SECRET_KEY == "secret-dev"

\* A token is the payload it carries and the key it was signed with; an
\* Authorization header is a token behind a prefix.
Payload(username, isAdmin) == [t |-> "object", username |-> username, isAdmin |-> isAdmin]
Token(payload, key) == [payload |-> payload, key |-> key]
Header(prefix, token) == [t |-> "object", prefix |-> prefix, token |-> token]

\* authHeader.replace(/^[Bb]earer /, "").trim()
StripBearer(authHeader) ==
    IF authHeader.prefix \in {"Bearer ", "bearer "}
    THEN [authHeader EXCEPT !.prefix = ""]
    ELSE authHeader

\* jwt.verify(token, key) returns the payload of a token signed with key, and
\* throws on anything else.
JwtVerifies(token, key) == token.prefix = "" /\ token.token.key = key

AuthenticateJWTRejecting(headers, locals) ==
    LET authHeader == headers.authorization IN
    IF Truthy(authHeader)
    THEN LET token == StripBearer(authHeader) IN
         IF JwtVerifies(token, SECRET_KEY)
         THEN [locals |-> [locals EXCEPT !.user = token.token.payload], next |-> "none"]
         ELSE [locals |-> locals, next |-> "UnauthorizedError"]
    ELSE [locals |-> locals, next |-> "none"]

\* next is the argument next() is called with: "none", or the error.
AuthenticateJWT(headers, locals) ==
    LET authHeader == headers.authorization IN
    IF Truthy(authHeader)
    THEN LET token == StripBearer(authHeader) IN
         IF JwtVerifies(token, SECRET_KEY)
         THEN [locals |-> [locals EXCEPT !.user = token.token.payload], next |-> "none"]
         ELSE [locals |-> locals, next |-> "none"]
    ELSE [locals |-> locals, next |-> "none"]

EnsureLoggedIn(locals) ==
    IF ~Truthy(locals.user) THEN "UnauthorizedError" ELSE "none"

EnsureLoggedInAsAdminLoginOnly(locals) ==
    IF ~Truthy(locals.user) THEN "UnauthorizedError" ELSE "none"

EnsureLoggedInAsAdminAnonymousPasses(locals) ==
    IF Truthy(locals.user) /\ ~locals.user.isAdmin
    THEN "UnauthorizedError"
    ELSE "none"

EnsureLoggedInAsAdmin(locals) ==
    IF ~Truthy(locals.user) \/ ~locals.user.isAdmin
    THEN "UnauthorizedError"
    ELSE "none"

EnsureUserRightsAdminOnly(locals, params) ==
    IF ~Truthy(locals.user) \/ ~locals.user.isAdmin
    THEN "UnauthorizedError"
    ELSE "none"

EnsureUserRights(locals, params) ==
    IF \/ ~Truthy(locals.user)
       \/ (~locals.user.isAdmin /\ locals.user.username # params.username)
    THEN "UnauthorizedError"
    ELSE "none"

(***************************************************************************)
(* Initial store: the rows the test setup inserts (_testCommon.js), cut    *)
(* down to two companies and two jobs with short names and small numbers.  *)
(***************************************************************************)
FixtureCompanies ==
    [h \in {"c1", "c2"} |->
        IF h = "c1"
        THEN [name |-> Text(<<"C", "1">>), description |-> Str("Desc1"),
              num_employees |-> Num(1), logo_url |-> Str("http://c1.img")]
        ELSE [name |-> Text(<<"C", "2">>), description |-> Str("Desc2"),
              num_employees |-> Num(2), logo_url |-> Str("http://c2.img")]]

FixtureJobs ==
    [i \in {1, 2} |->
        IF i = 1
        THEN [title |-> Text(<<"t", "1">>), salary |-> Num(2),
              equity |-> Text(<<"0">>), company_handle |-> Str("c1")]
        ELSE [title |-> Text(<<"t", "2">>), salary |-> Num(10),
              equity |-> Text(<<"0", ".", "0", "1">>), company_handle |-> Str("c2")]]

NoCall == [op |-> "none"]
Idle == [pc |-> "idle"]

\* The requests served at the same time.
MaxProcs == 2
Procs == 1..MaxProcs

Init ==
    /\ companies = FixtureCompanies
    /\ jobs = FixtureJobs
    /\ jobIdSeq = 3
    /\ last = NoCall
    /\ http = Idle
    /\ calls = [p \in Procs |-> Idle]
    /\ history = {[companies |-> FixtureCompanies, jobs |-> FixtureJobs]}

(***************************************************************************)
(* Inputs                                                                  *)
(***************************************************************************)
MaxFields == 2

\* Every object with at most n of the keys K, in any insertion order, valued in V.
KeySeqs(K, n) ==
    { ks \in UNION { [1..m -> K] : m \in 0..n } :
        \A i, j \in 1..Len(ks) : i # j => ks[i] # ks[j] }

Objects(K, V, n) ==
    UNION { { [i \in 1..Len(ks) |-> <<ks[i], vs[i]>>] : vs \in [1..Len(ks) -> V] } :
            ks \in KeySeqs(K, n) }

SqlKeys == {"name", "numEmployees", "logoUrl"}
SqlColumns == {"num_employees", "logo_url"}
SqlValues == {Null, Num(25), Str("x")}
OverrideMaps == UNION { [D -> SqlColumns] : D \in SUBSET SqlKeys }

\* Every object holding some of the keys `fields`, inserted in that order,
\* each key valued in its own domain.
RECURSIVE ObjectsInOrder(_, _)
ObjectsInOrder(fields, dom) ==
    IF Len(fields) = 0 THEN {<<>>}
    ELSE LET rest == ObjectsInOrder(Tail(fields), dom) IN
         rest \cup { <<<<Head(fields), v>>>> \o r : v \in dom[Head(fields)], r \in rest }

\* Data can include: {name, description, numEmployees, logoUrl}
CompanyUpdateFields == <<"name", "description", "numEmployees", "logoUrl">>
CompanyUpdateValues ==
    [name |-> {Text(<<"N", "e", "w">>)},
     description |-> {Str("New Description")},
     numEmployees |-> {Num(10)},
     logoUrl |-> {Null}]

JobUpdateFields == <<"title", "salary", "equity", "companyHandle">>
JobUpdateValues ==
    [title |-> {Text(<<"n", "e", "w">>)},
     salary |-> {Null},
     equity |-> {Text(<<"0", ".", "0", "4">>)},
     companyHandle |-> {Str("c1"), Str("c2")}]

Handles == {"c1", "c2", "nope"}
JobIds == {0, 1, 2}

(***************************************************************************)
(* Calls.  A call runs to its end in one step and leaves its outcome in    *)
(* `last`; Return hands the outcome to the caller.                         *)
(***************************************************************************)
Return ==
    /\ last.op # "none"
    /\ last' = NoCall
    /\ UNCHANGED <<companies, jobs, jobIdSeq, http, calls, history>>

CallSqlForPartialUpdate ==
    /\ last.op = "none"
    /\ \E data \in Objects(SqlKeys, SqlValues, MaxFields), jsToSql \in OverrideMaps :
          last' = [op |-> "sqlForPartialUpdate", data |-> data, jsToSql |-> jsToSql,
                   out |-> SqlForPartialUpdate(data, jsToSql)]
    /\ UNCHANGED <<companies, jobs, jobIdSeq, http, calls, history>>

\* The outcome of a call on the store, as the caller sees it.
Called(op, key, data, out) ==
    /\ companies' = out.companies
    /\ jobs' = out.jobs
    /\ last' = [op |-> op, key |-> key, data |-> data,
                err |-> out.err, ret |-> out.ret, queries |-> out.queries]
    /\ jobIdSeq' = IF "seq" \in DOMAIN out THEN out.seq ELSE jobIdSeq
    /\ UNCHANGED <<http, calls, history>>

CallCompanyUpdate ==
    /\ last.op = "none"
    /\ \E handle \in Handles,
          data \in ObjectsInOrder(CompanyUpdateFields, CompanyUpdateValues) :
          Called("Company.update", handle, data,
                 CompanyUpdate(companies, jobs, Str(handle), data))

CallJobUpdate ==
    /\ last.op = "none"
    /\ \E id \in JobIds, data \in ObjectsInOrder(JobUpdateFields, JobUpdateValues) :
          Called("Job.update", id, data, JobUpdate(companies, jobs, Num(id), data))

NextSql == CallSqlForPartialUpdate \/ Return

SpecSql == Init /\ [][NextSql]_vars

NextUpdate == CallCompanyUpdate \/ CallJobUpdate \/ Return

SpecUpdate == Init /\ [][NextUpdate]_vars

(***************************************************************************)
(* Listing companies: the store varies in names and head counts.           *)
(***************************************************************************)
MaxEmployees == 2

EmployeeCounts == {Null} \cup { Num(n) : n \in 0..MaxEmployees }
ListedNames == {Text(<<"c", "1">>), Text(<<"C", "_">>)}
NameFilters == {Undefined, Text(<<>>), Text(<<"c">>), Text(<<"1">>), Text(<<"_">>)}

CallCompanyCreate ==
    /\ last.op = "none"
    /\ \E name \in ListedNames, numEmployees \in EmployeeCounts :
          LET data == [handle |-> Str("c3"), name |-> name, description |-> Str("Desc3"),
                       numEmployees |-> numEmployees, logoUrl |-> Str("http://c3.img")]
          IN  Called("Company.create", "c3", data, CompanyCreate(companies, jobs, data))

CallCompanyRename ==
    /\ last.op = "none"
    /\ \E handle \in {"c1", "c2"},
          data \in ObjectsInOrder(<<"name", "numEmployees">>,
                                  [name |-> ListedNames, numEmployees |-> EmployeeCounts]) :
          Called("Company.update", handle, data,
                 CompanyUpdate(companies, jobs, Str(handle), data))

CallCompanyFindAll ==
    /\ last.op = "none"
    /\ \E nameFilter \in NameFilters, minEmployees, maxEmployees \in EmployeeCounts :
       \E out \in CompanyFindAll(companies, jobs, nameFilter, minEmployees, maxEmployees) :
          Called("Company.findAll", "*", <<nameFilter, minEmployees, maxEmployees>>, out)

NextCompanyFind == CallCompanyCreate \/ CallCompanyRename \/ CallCompanyFindAll \/ Return

SpecCompanyFind == Init /\ [][NextCompanyFind]_vars

(***************************************************************************)
(* Listing jobs: the store varies in titles, salaries and equity.          *)
(***************************************************************************)
Salaries == {Null, Num(0), Num(2), Num(10)}
SalaryFilters == {Undefined, Null, Num(0), Num(2), Num(5), Num(10)}
Equities == {Null, Text(<<"0">>), Text(<<"0", ".", "0", "1">>)}
ListedTitles == {Text(<<"T", "1">>), Text(<<"t", "_">>)}
TitleFilters == {Undefined, Text(<<>>), Text(<<"t">>), Text(<<"1">>), Text(<<"_">>)}
EquityFilters == {Undefined, Null, Bool(FALSE), Bool(TRUE)}

CallJobRetitle ==
    /\ last.op = "none"
    /\ \E id \in {1, 2},
          data \in ObjectsInOrder(<<"title", "salary", "equity">>,
                                  [title |-> ListedTitles, salary |-> Salaries,
                                   equity |-> Equities]) :
          Called("Job.update", id, data, JobUpdate(companies, jobs, Num(id), data))

CallJobFindAll ==
    /\ last.op = "none"
    /\ \E titleFilter \in TitleFilters, minSalary \in SalaryFilters, hasEquity \in EquityFilters :
       \E out \in JobFindAll(companies, jobs, titleFilter, minSalary, hasEquity) :
          Called("Job.findAll", "*", <<titleFilter, minSalary, hasEquity>>, out)

NextJobFind == CallJobRetitle \/ CallJobFindAll \/ Return

SpecJobFind == Init /\ [][NextJobFind]_vars

(***************************************************************************)
(* The middleware functions called on their own                            *)
(***************************************************************************)
Usernames == {"u1", "u2", "admin", "nobody"}
Payloads == { Payload(u, a) : u \in Usernames, a \in BOOLEAN }
Tokens == { Token(p, k) : p \in Payloads, k \in {SECRET_KEY, "another-key"} }
AuthHeaders ==
    {Undefined, Str("")}
    \cup { Header(prefix, token) : prefix \in {"Bearer ", "bearer ", "", "Basic "},
                                   token \in Tokens }
Locals == { [user |-> u] : u \in {Undefined} \cup Payloads }

CallAuthenticateJWT ==
    /\ last.op = "none"
    /\ \E authorization \in AuthHeaders :
          last' = [op |-> "authenticateJWT", authorization |-> authorization,
                   out |-> AuthenticateJWT([authorization |-> authorization],
                                           [user |-> Undefined])]
    /\ UNCHANGED <<companies, jobs, jobIdSeq, http, calls, history>>

CallEnsureLoggedIn ==
    /\ last.op = "none"
    /\ \E locals \in Locals :
          last' = [op |-> "ensureLoggedIn", locals |-> locals,
                   next |-> EnsureLoggedIn(locals)]
    /\ UNCHANGED <<companies, jobs, jobIdSeq, http, calls, history>>

CallEnsureLoggedInAsAdmin ==
    /\ last.op = "none"
    /\ \E locals \in Locals :
          last' = [op |-> "ensureLoggedInAsAdmin", locals |-> locals,
                   next |-> EnsureLoggedInAsAdmin(locals)]
    /\ UNCHANGED <<companies, jobs, jobIdSeq, http, calls, history>>

CallEnsureUserRights ==
    /\ last.op = "none"
    /\ \E locals \in Locals, username \in Usernames :
          last' = [op |-> "ensureUserRights", locals |-> locals, username |-> username,
                   next |-> EnsureUserRights(locals, [username |-> username])]
    /\ UNCHANGED <<companies, jobs, jobIdSeq, http, calls, history>>

NextMiddleware ==
    \/ CallAuthenticateJWT
    \/ CallEnsureLoggedIn
    \/ CallEnsureLoggedInAsAdmin
    \/ CallEnsureUserRights
    \/ Return

SpecMiddleware == Init /\ [][NextMiddleware]_vars

(***************************************************************************)
(* routes/companies.js, routes/jobs.js: the handlers of the list routes    *)
(***************************************************************************)
\* obj[key]
Get(obj, key) == IF HasKey(obj, key) THEN ValueOf(obj, key) ELSE Undefined

\* The first key the loop stops at decides the result.
CheckQuery(queries, known, numeric) ==
    LET Bad(i) == queries[i][1] \notin known
        NotANumber(i) == queries[i][1] \in numeric /\ IsNaN(queries[i][2])
        stops == { i \in 1..Len(queries) : Bad(i) \/ NotANumber(i) }
    IN  IF stops = {} THEN Null
        ELSE LET first == CHOOSE i \in stops : \A j \in stops : i <= j
             IN  [t |-> "object", query |-> queries[first][1],
                  error |-> IF Bad(first) THEN "bad query" ELSE "must be a number"]

CheckCompanyGetQueryFirstOnly(queries) ==
    IF Len(queries) = 0 THEN Null
    ELSE CheckQuery(<<queries[1]>>, {"maxEmployees", "minEmployees", "name"},
                    {"minEmployees", "maxEmployees"})

CheckCompanyGetQuery(queries) ==
    CheckQuery(queries, {"maxEmployees", "minEmployees", "name"},
               {"minEmployees", "maxEmployees"})

CheckJobGetQuery(queries) ==
    CheckQuery(queries, {"titleFilter", "minSalary", "hasEquity"}, {"minSalary"})

\* What a list route did: the calls of findAll it made, and how findAll ended
\* (or the error the route threw itself).
Listing(made, out) == [calls |-> made, out |-> out]

\* GET /companies: every way the handler can run on a query.
CompaniesGet(cs, js, query) ==
    LET checkResult == CheckCompanyGetQuery(query) IN
    IF Truthy(checkResult)
    THEN { Listing(<<>>, Outcome(cs, js, "BadRequestError", Undefined, 0)) }
    ELSE LET args == <<Get(query, "name"),
                       ToNumber(Get(query, "minEmployees")),
                       ToNumber(Get(query, "maxEmployees"))>>
         IN  { Listing(<<args>>, out) :
               out \in CompanyFindAll(cs, js, args[1], args[2], args[3]) }

\* GET /jobs
JobsGet(cs, js, query) ==
    LET checkResult == CheckJobGetQuery(query) IN
    IF Truthy(checkResult)
    THEN { Listing(<<>>, Outcome(cs, js, "BadRequestError", Undefined, 0)) }
    ELSE LET args == <<Get(query, "titleFilter"), Get(query, "minSalary"),
                       Get(query, "hasEquity")>>
         IN  { Listing(<<args>>, out) :
               out \in JobFindAll(cs, js, args[1], args[2], args[3]) }

(***************************************************************************)
(* routes/companies.js, routes/jobs.js: the routes behind authenticateJWT  *)
(***************************************************************************)
\* The middleware a router puts in front of a route's handler.
GuardOpen(route) == "none"

GuardAdminEverywhere(route) == "ensureLoggedInAsAdmin"

Guard(route) ==
    CASE route = "POST /companies" -> "ensureLoggedInAsAdmin"
      [] route = "GET /companies" -> "none"
      [] route = "GET /jobs" -> "none"
      [] route = "GET /companies/:handle" -> "none"
      [] route = "PATCH /companies/:handle" -> "ensureLoggedInAsAdmin"
      [] route = "DELETE /companies/:handle" -> "ensureLoggedInAsAdmin"
      [] route = "POST /jobs" -> "ensureLoggedInAsAdmin"
      [] route = "GET /jobs/:id" -> "none"
      [] route = "PATCH /jobs/:id" -> "ensureLoggedInAsAdmin"
      [] route = "DELETE /jobs/:id" -> "ensureLoggedInAsAdmin"

\* The status the error handler answers an error with.
StatusOf(err) ==
    CASE err = "BadRequestError" -> 400
      [] err = "UnauthorizedError" -> 401
      [] err = "NotFoundError" -> 404
      [] OTHER -> 500

\* jsonschema.validate(req.body, schema).valid
SchemaValid(body) == body.valid

MaxJobId == 4

NoBody == [valid |-> TRUE, data |-> Undefined]
NewCompany(handle) ==
    [handle |-> Str(handle), name |-> Text(<<"N", "e", "w">>), description |-> Str("DescNew"),
     numEmployees |-> Num(10), logoUrl |-> Str("http://new.img")]
NewJob(handle) ==
    [title |-> Text(<<"n", "e", "w">>), salary |-> Num(1), equity |-> Text(<<"0">>),
     companyHandle |-> Str(handle)]
Bodies(data) == {[valid |-> TRUE, data |-> data], [valid |-> FALSE, data |-> data]}

\* The requests sent: a route, its path parameter and its body.
Requests ==
    { [route |-> "POST /companies", param |-> Undefined, body |-> b] :
        b \in Bodies(NewCompany("c3")) \cup {[valid |-> TRUE, data |-> NewCompany("c1")]} }
    \cup { [route |-> r, param |-> Str(h), body |-> NoBody] :
             r \in {"GET /companies/:handle", "DELETE /companies/:handle"},
             h \in {"c1", "nope"} }
    \cup { [route |-> "PATCH /companies/:handle", param |-> Str(h), body |-> b] :
             h \in {"c1", "nope"},
             b \in Bodies(<<<<"name", Text(<<"N", "e", "w">>)>>>>) }
    \cup { [route |-> "POST /jobs", param |-> Undefined, body |-> b] :
             b \in Bodies(NewJob("c1")) \cup {[valid |-> TRUE, data |-> NewJob("nope")]} }
    \cup { [route |-> r, param |-> Text(<<i>>), body |-> NoBody] :
             r \in {"GET /jobs/:id", "DELETE /jobs/:id"}, i \in {"1", "9"} }
    \cup { [route |-> "PATCH /jobs/:id", param |-> Text(<<i>>), body |-> b] :
             i \in {"1", "9"},
             b \in Bodies(<<<<"title", Text(<<"n", "e", "w">>)>>>>) }

\* The Authorization headers sent: none, a user's token, an admin's token, and
\* a token claiming to be an admin's signed with another key.
Credentials ==
    {Undefined,
     Header("Bearer ", Token(Payload("u1", FALSE), SECRET_KEY)),
     Header("Bearer ", Token(Payload("admin", TRUE), SECRET_KEY)),
     Header("Bearer ", Token(Payload("admin", TRUE), "another-key"))}

\* The requests sent to the list routes.
ListRequests ==
    { [route |-> "GET /companies", param |-> Undefined, body |-> NoBody, query |-> q] :
        q \in {<<>>, <<<<"name", Text(<<"c">>)>>>>, <<<<"sort", Text(<<"a">>)>>>>} }
    \cup { [route |-> "GET /jobs", param |-> Undefined, body |-> NoBody, query |-> q] :
             q \in {<<>>, <<<<"hasEquity", Text(<<"t", "r", "u", "e">>)>>>>,
                    <<<<"minSalary", Text(<<"a">>)>>>>} }

\* A request arrives; the application runs authenticateJWT on every request
\* before its routers.
Receive ==
    /\ http.pc = "idle"
    /\ last.op = "none"
    /\ \E req \in Requests \cup ListRequests, authorization \in Credentials :
          /\ req.route = "POST /jobs" => jobIdSeq < MaxJobId
          /\ http' = [pc |-> "authenticateJWT", route |-> req.route, param |-> req.param,
                      query |-> IF "query" \in DOMAIN req THEN req.query ELSE <<>>,
                      body |-> req.body, authorization |-> authorization,
                      user |-> Undefined, err |-> "none", status |-> 0]
    /\ UNCHANGED <<companies, jobs, jobIdSeq, last, calls, history>>

StepAuthenticateJWT ==
    /\ http.pc = "authenticateJWT"
    /\ LET r == AuthenticateJWT([authorization |-> http.authorization],
                                [user |-> http.user])
       IN  http' = [http EXCEPT !.user = r.locals.user,
                                !.err = r.next,
                                !.pc = IF r.next = "none" THEN "route" ELSE "errorHandler"]
    /\ UNCHANGED <<companies, jobs, jobIdSeq, last, calls, history>>

StepEnsureLoggedInAsAdmin ==
    /\ http.pc = "route"
    /\ Guard(http.route) = "ensureLoggedInAsAdmin"
    /\ LET err == EnsureLoggedInAsAdmin([user |-> http.user])
       IN  http' = [http EXCEPT !.err = err,
                                !.pc = IF err = "none" THEN "handler" ELSE "errorHandler"]
    /\ UNCHANGED <<companies, jobs, jobIdSeq, last, calls, history>>

\* The handler of route is next to run.
AtHandler(route) ==
    /\ http.pc \in {"route", "handler"}
    /\ http.route = route
    /\ http.pc = "route" => Guard(route) = "none"

\* try { ... return res.status(status).json(...) } catch (err) { return next(err) }
Handled(op, status, out) ==
    /\ companies' = out.companies
    /\ jobs' = out.jobs
    /\ jobIdSeq' = IF "seq" \in DOMAIN out THEN out.seq ELSE jobIdSeq
    /\ last' = [op |-> op, key |-> http.param, data |-> http.body.data,
                err |-> out.err, ret |-> out.ret, queries |-> out.queries]
    /\ http' = IF out.err = "none"
               THEN [http EXCEPT !.pc = "done", !.status = status]
               ELSE [http EXCEPT !.pc = "errorHandler", !.err = out.err]
    /\ UNCHANGED <<calls, history>>

\* throw new BadRequestError(errs), caught and passed to next()
Invalid ==
    /\ http' = [http EXCEPT !.pc = "errorHandler", !.err = "BadRequestError"]
    /\ UNCHANGED <<companies, jobs, jobIdSeq, last, calls, history>>

\* A list route: the query check throws, or findAll is called.
HandledList(op, listing) ==
    IF listing.calls = <<>> THEN Invalid ELSE Handled(op, 200, listing.out)

ListCompanies ==
    /\ AtHandler("GET /companies")
    /\ \E listing \in CompaniesGet(companies, jobs, http.query) :
          HandledList("Company.findAll", listing)

ListJobs ==
    /\ AtHandler("GET /jobs")
    /\ \E listing \in JobsGet(companies, jobs, http.query) :
          HandledList("Job.findAll", listing)

PostCompany ==
    /\ AtHandler("POST /companies")
    /\ IF ~SchemaValid(http.body) THEN Invalid
       ELSE Handled("Company.create", 201, CompanyCreate(companies, jobs, http.body.data))

GetCompany ==
    /\ AtHandler("GET /companies/:handle")
    /\ Handled("Company.get", 200, CompanyGet(companies, jobs, http.param))

PatchCompany ==
    /\ AtHandler("PATCH /companies/:handle")
    /\ IF ~SchemaValid(http.body) THEN Invalid
       ELSE Handled("Company.update", 200,
                    CompanyUpdate(companies, jobs, http.param, http.body.data))

DeleteCompany ==
    /\ AtHandler("DELETE /companies/:handle")
    /\ Handled("Company.remove", 200, CompanyRemove(companies, jobs, http.param))

PostJob ==
    /\ AtHandler("POST /jobs")
    /\ IF ~SchemaValid(http.body) THEN Invalid
       ELSE Handled("Job.create", 201, JobCreate(companies, jobs, jobIdSeq, http.body.data))

GetJob ==
    /\ AtHandler("GET /jobs/:id")
    /\ Handled("Job.get", 200, JobGet(companies, jobs, http.param))

PatchJob ==
    /\ AtHandler("PATCH /jobs/:id")
    /\ IF ~SchemaValid(http.body) THEN Invalid
       ELSE Handled("Job.update", 200, JobUpdate(companies, jobs, http.param, http.body.data))

DeleteJob ==
    /\ AtHandler("DELETE /jobs/:id")
    /\ Handled("Job.remove", 200, JobRemove(companies, jobs, http.param))

\* The application's error handler answers with the error's status.
ErrorHandler ==
    /\ http.pc = "errorHandler"
    /\ http' = [http EXCEPT !.pc = "done", !.status = StatusOf(http.err)]
    /\ UNCHANGED <<companies, jobs, jobIdSeq, last, calls, history>>

\* The response is sent.
Respond ==
    /\ http.pc = "done"
    /\ http' = Idle
    /\ last' = NoCall
    /\ UNCHANGED <<companies, jobs, jobIdSeq, calls, history>>

NextRoutes ==
    \/ Receive
    \/ StepAuthenticateJWT
    \/ StepEnsureLoggedInAsAdmin
    \/ ListCompanies
    \/ ListJobs
    \/ PostCompany
    \/ GetCompany
    \/ PatchCompany
    \/ DeleteCompany
    \/ PostJob
    \/ GetJob
    \/ PatchJob
    \/ DeleteJob
    \/ ErrorHandler
    \/ Respond

SpecRoutes == Init /\ [][NextRoutes]_vars

(***************************************************************************)
(* routes/companies.js, routes/jobs.js: the list routes called on their    *)
(* own                                                                     *)
(***************************************************************************)
\* res.json(...) answers 200; an error goes to the error handler.
Response(out) ==
    [status |-> IF out.err = "none" THEN 200 ELSE StatusOf(out.err), body |-> out.ret]

MaxParams == 2

\* Query-string values: texts, and arrays of texts for a repeated parameter.
NumberParams ==
    {Text(<<>>), Text(<<"0">>), Text(<<"1">>), Text(<<"a">>),
     Arr(<<Text(<<"1">>)>>), Arr(<<Text(<<"1">>), Text(<<"2">>)>>)}
ParamValues ==
    [name |-> {Text(<<"c">>)}, minEmployees |-> NumberParams, maxEmployees |-> NumberParams,
     titleFilter |-> {Text(<<"t">>)}, minSalary |-> NumberParams,
     hasEquity |-> {Text(<<>>), Text(<<"t", "r", "u", "e">>), Text(<<"f", "a", "l", "s", "e">>)},
     sort |-> {Text(<<"a">>)}]

\* Every query with at most n of the keys K, in any order.
Queries(K, n) ==
    UNION { { [i \in 1..Len(ks) |-> <<ks[i], vs[i]>>] :
              vs \in { f \in [1..Len(ks) -> UNION { ParamValues[k] : k \in K }] :
                         \A i \in 1..Len(ks) : f[i] \in ParamValues[ks[i]] } } :
            ks \in KeySeqs(K, n) }

CompanyQueries == Queries({"name", "minEmployees", "maxEmployees", "sort"}, MaxParams)
JobQueries == Queries({"titleFilter", "minSalary", "hasEquity", "sort"}, MaxParams)

Listed(op, query, listing) ==
    /\ companies' = listing.out.companies
    /\ jobs' = listing.out.jobs
    /\ last' = [op |-> op, query |-> query, calls |-> listing.calls,
                err |-> listing.out.err, response |-> Response(listing.out)]
    /\ UNCHANGED <<jobIdSeq, http, calls, history>>

GetCompanies ==
    /\ last.op = "none"
    /\ \E query \in CompanyQueries :
       \E listing \in CompaniesGet(companies, jobs, query) :
          Listed("GET /companies", query, listing)

GetJobs ==
    /\ last.op = "none"
    /\ \E query \in JobQueries :
       \E listing \in JobsGet(companies, jobs, query) :
          Listed("GET /jobs", query, listing)

\* The store varies in one company's numEmployees and one job's salary.
CallCompanyUpdateEmployees ==
    /\ last.op = "none"
    /\ \E numEmployees \in {Null, Num(0)} :
          LET data == <<<<"numEmployees", numEmployees>>>>
          IN  Called("Company.update", "c1", data,
                     CompanyUpdate(companies, jobs, Str("c1"), data))

CallJobUpdateSalary ==
    /\ last.op = "none"
    /\ \E salary \in {Null, Num(0)} :
          LET data == <<<<"salary", salary>>>>
          IN  Called("Job.update", 1, data, JobUpdate(companies, jobs, Num(1), data))

NextList ==
    \/ GetCompanies
    \/ GetJobs
    \/ CallCompanyUpdateEmployees
    \/ CallJobUpdateSalary
    \/ Return

SpecList == Init /\ [][NextList]_vars

(***************************************************************************)
(* The model methods that take one record, called on their own             *)
(***************************************************************************)
RecordHandles == {"c1", "c3"}
RecordIds == {1, 2, 3}

CallCompanyGet ==
    /\ last.op = "none"
    /\ \E handle \in RecordHandles :
          Called("Company.get", handle, Undefined, CompanyGet(companies, jobs, Str(handle)))

CallCompanyRemove ==
    /\ last.op = "none"
    /\ \E handle \in RecordHandles :
          Called("Company.remove", handle, Undefined,
                 CompanyRemove(companies, jobs, Str(handle)))

CallCompanyCreateAs ==
    /\ last.op = "none"
    /\ \E handle \in RecordHandles :
          Called("Company.create", handle, NewCompany(handle),
                 CompanyCreate(companies, jobs, NewCompany(handle)))

CallJobGet ==
    /\ last.op = "none"
    /\ \E id \in RecordIds : Called("Job.get", id, Undefined, JobGet(companies, jobs, Num(id)))

CallJobRemove ==
    /\ last.op = "none"
    /\ \E id \in RecordIds :
          Called("Job.remove", id, Undefined, JobRemove(companies, jobs, Num(id)))

CallJobCreate ==
    /\ last.op = "none"
    /\ jobIdSeq < MaxJobId
    /\ \E handle \in RecordHandles :
          Called("Job.create", jobIdSeq, NewJob(handle),
                 JobCreate(companies, jobs, jobIdSeq, NewJob(handle)))

NextRecords ==
    \/ CallCompanyGet
    \/ CallCompanyRemove
    \/ CallCompanyCreateAs
    \/ CallCompanyUpdateEmployees
    \/ CallJobGet
    \/ CallJobRemove
    \/ CallJobCreate
    \/ CallJobUpdateSalary
    \/ Return

SpecRecords == Init /\ [][NextRecords]_vars

(***************************************************************************)
(* findAll of both models called on the initial store                      *)
(***************************************************************************)
NextClause == CallCompanyFindAll \/ CallJobFindAll \/ Return

SpecClause == Init /\ [][NextClause]_vars

(***************************************************************************)
(* Model calls running at the same time.  Each db.query is one statement   *)
(* and the store runs a statement atomically; a call that awaits two       *)
(* queries lets the statements of other calls come between them.           *)
(***************************************************************************)
\* models/company.js create: const duplicateCheck = await db.query(SELECT ...)
CompanyCreateCheck(cs, data) ==
    IF data.handle.v \in DOMAIN cs THEN <<data.handle>> ELSE NoRows

\* models/company.js create: const result = await db.query(INSERT ...); an
\* error of the store is not caught and leaves create as it came.
CompanyCreateInsert(cs, js, data) ==
    LET result == DbInsertCompany(cs, <<data.handle, data.name, data.description,
                                        data.numEmployees, data.logoUrl>>)
    IN  IF result.err # "none"
        THEN Outcome(cs, js, result.err, Undefined, 2)
        ELSE Outcome(result.table, js, "none", CompanyRecord(result.rows[1]), 2)

\* models/company.js get: const companyRes = await db.query(SELECT ... FROM companies ...)
CompanyGetRow(cs, handle) ==
    IF handle.v \notin DOMAIN cs THEN NoRows
    ELSE <<CompanyRecord([key |-> handle.v, row |-> cs[handle.v]])>>

CompanyGetJobsNone(company, js, handle) == company @@ [jobs |-> <<>>]

\* models/company.js get: const jobRes = await db.query(SELECT ... FROM jobs ...);
\* company.jobs = jobRes.rows
CompanyGetJobs(company, js, handle) == company @@ [jobs |-> DbSelectJobsOf(js, handle)]

Store == [companies |-> companies, jobs |-> jobs]

CreateHandles == {"c1", "c3"}
GetHandles == {"c1", "c3"}
Renamed == <<<<"name", Text(<<"N", "e", "w">>)>>>>
Retitled == <<<<"title", Text(<<"n", "e", "w">>)>>>>

\* A call ends: it returned or threw.
Ended(p, op, key, out, reads) ==
    /\ companies' = out.companies
    /\ jobs' = out.jobs
    /\ jobIdSeq' = IF "seq" \in DOMAIN out THEN out.seq ELSE jobIdSeq
    /\ history' = history \cup {[companies |-> out.companies, jobs |-> out.jobs]}
    /\ calls' = [calls EXCEPT ![p] = [pc |-> "done", op |-> op, key |-> key,
                                      err |-> out.err, ret |-> out.ret] @@ reads]
    /\ UNCHANGED <<last, http>>

\* A call awaits its next statement.
Awaits(p, call) ==
    /\ calls' = [calls EXCEPT ![p] = call]
    /\ UNCHANGED <<companies, jobs, jobIdSeq, last, http, history>>

NoReads == [statements |-> 1]

CreateCheck(p) ==
    /\ calls[p].pc = "idle"
    /\ \E handle \in CreateHandles :
          LET data == NewCompany(handle) IN
          IF Len(CompanyCreateCheck(companies, data)) > 0
          THEN Ended(p, "Company.create", handle,
                     Outcome(companies, jobs, "BadRequestError", Undefined, 1), NoReads)
          ELSE Awaits(p, [pc |-> "insert", op |-> "Company.create", data |-> data])

CreateInsert(p) ==
    /\ calls[p].pc = "insert"
    /\ Ended(p, "Company.create", calls[p].data.handle.v,
             CompanyCreateInsert(companies, jobs, calls[p].data), [statements |-> 2])

GetCompanyRow(p) ==
    /\ calls[p].pc = "idle"
    /\ \E handle \in GetHandles :
          LET companyRes == CompanyGetRow(companies, Str(handle)) IN
          IF Len(companyRes) = 0
          THEN Ended(p, "Company.get", handle,
                     Outcome(companies, jobs, "NotFoundError", Undefined, 1), NoReads)
          ELSE Awaits(p, [pc |-> "jobs", op |-> "Company.get", handle |-> handle,
                          company |-> companyRes[1], first |-> Store])

GetCompanyJobs(p) ==
    /\ calls[p].pc = "jobs"
    /\ Ended(p, "Company.get", calls[p].handle,
             Outcome(companies, jobs, "none",
                     CompanyGetJobs(calls[p].company, jobs, Str(calls[p].handle)), 2),
             [first |-> calls[p].first, second |-> Store])

\* The calls of one statement.
RunCompanyUpdate(p) ==
    /\ calls[p].pc = "idle"
    /\ Ended(p, "Company.update", "c1", CompanyUpdate(companies, jobs, Str("c1"), Renamed),
             NoReads)

RunCompanyRemove(p) ==
    /\ calls[p].pc = "idle"
    /\ Ended(p, "Company.remove", "c1", CompanyRemove(companies, jobs, Str("c1")), NoReads)

RunJobCreate(p) ==
    /\ calls[p].pc = "idle"
    /\ Ended(p, "Job.create", jobIdSeq, JobCreate(companies, jobs, jobIdSeq, NewJob("c1")),
             NoReads)

RunJobUpdate(p) ==
    /\ calls[p].pc = "idle"
    /\ Ended(p, "Job.update", 1, JobUpdate(companies, jobs, Num(1), Retitled), NoReads)

RunJobRemove(p) ==
    /\ calls[p].pc = "idle"
    /\ Ended(p, "Job.remove", 1, JobRemove(companies, jobs, Num(1)), NoReads)

NextConcurrent ==
    \E p \in Procs :
        \/ CreateCheck(p)
        \/ CreateInsert(p)
        \/ GetCompanyRow(p)
        \/ GetCompanyJobs(p)
        \/ RunCompanyUpdate(p)
        \/ RunCompanyRemove(p)
        \/ RunJobCreate(p)
        \/ RunJobUpdate(p)
        \/ RunJobRemove(p)

SpecConcurrent == Init /\ [][NextConcurrent]_vars

(***************************************************************************)
(* Properties                                                              *)
(***************************************************************************)
\* A record of a table as the access layer shapes it.
CompanyOf(cs, handle) == CompanyRecord([key |-> handle, row |-> cs[handle]])
JobOf(js, id) == JobRecord([key |-> id, row |-> js[id]])

\* C1: for a non-empty mapping with fields k1..kN, setCols is N fragments
\* joined by ", ", the i-th assigning $i to the column the override mapping
\* gives for ki (ki itself when it gives none), and values is the N input
\* values in the same order.
C1_FragmentsAndValues ==
    (last.op = "sqlForPartialUpdate" /\ Len(last.data) > 0) =>
        LET N == Len(last.data)
            key(i) == last.data[i][1]
            column(i) == IF key(i) \in DOMAIN last.jsToSql
                         THEN last.jsToSql[key(i)] ELSE key(i)
        IN  /\ last.out.err = "none"
            /\ Len(last.out.setCols) = 4 * N - 1
            /\ \A i \in 1..N :
                  /\ last.out.setCols[4 * i - 3] = Ident(column(i))
                  /\ last.out.setCols[4 * i - 2] = EqSign
                  /\ last.out.setCols[4 * i - 1] = Param(i)
                  /\ i < N => last.out.setCols[4 * i] = CommaSpace
            /\ Len(last.out.values) = N
            /\ \A i \in 1..N : last.out.values[i] = last.data[i][2]

\* Two fields, the first with an override and the second without.
C1_Witness ==
    /\ last.op = "sqlForPartialUpdate"
    /\ Len(last.data) = 2
    /\ last.data[1][1] \in DOMAIN last.jsToSql
    /\ last.data[2][1] \notin DOMAIN last.jsToSql
    /\ last.out.err = "none"
    /\ last.out.setCols[4] = CommaSpace

IsUpdate(op) == op \in {"Company.update", "Job.update"}

\* C2: the compiler fails with BadRequestError on an empty mapping, so an
\* update with empty data throws BadRequestError for every key, existing or
\* not, before any statement is sent, and changes nothing.
C2_NoDataIsBadRequest ==
    [][/\ \A jsToSql \in OverrideMaps \cup {CompanyJsToSql, JobJsToSql} :
             SqlForPartialUpdate(<<>>, jsToSql).err = "BadRequestError"
       /\ (IsUpdate(last'.op) /\ last.op = "none" /\ Len(last'.data) = 0) =>
             /\ last'.err = "BadRequestError"
             /\ last'.queries = 0
             /\ companies' = companies
             /\ jobs' = jobs]_vars

\* Job.update(0, {}) on a store that holds no job 0.
C2_Witness ==
    /\ last.op = "Job.update"
    /\ Len(last.data) = 0
    /\ last.key \notin DOMAIN jobs
    /\ last.err = "BadRequestError"

\* The other records of both tables are as they were.
OthersUnchanged(op, key) ==
    IF op = "Company.update"
    THEN /\ jobs' = jobs
         /\ DOMAIN companies' = DOMAIN companies
         /\ \A h \in DOMAIN companies \ {key} : companies'[h] = companies[h]
    ELSE /\ companies' = companies
         /\ DOMAIN jobs' = DOMAIN jobs
         /\ \A i \in DOMAIN jobs \ {key} : jobs'[i] = jobs[i]

Before(op, key) ==
    IF op = "Company.update" THEN CompanyOf(companies, key) ELSE JobOf(jobs, key)
After(op, key) ==
    IF op = "Company.update" THEN CompanyOf(companies', key) ELSE JobOf(jobs', key)

Written(op, data) ==
    IF op = "Job.update" THEN DeleteKey(data, "companyHandle") ELSE data

Supplied(x) == x.t \notin {"undefined", "null"}

\* C8: Company.findAll throws BadRequestError, with no statement sent to
\* the store, whenever minEmployees and maxEmployees are both supplied and
\* maxEmployees < minEmployees.
C8_MinOverMaxIsBadRequest ==
    (/\ last.op = "Company.findAll"
     /\ Supplied(last.data[2])
     /\ Supplied(last.data[3])
     /\ last.data[3].v < last.data[2].v) =>
        /\ last.err = "BadRequestError"
        /\ last.queries = 0

\* minEmployees = 1 with maxEmployees = 0.
C8_Witness ==
    /\ last.op = "Company.findAll"
    /\ last.data[2] = Num(1)
    /\ last.data[3] = Num(0)
    /\ last.err = "BadRequestError"
    /\ "c3" \in DOMAIN companies

\* text contains sub, letter case aside
ContainsNoCase(text, sub) ==
    \E i \in 0..(Len(text) - Len(sub)) :
        \A j \in 1..Len(sub) : Lower(text[i + j]) = Lower(sub[j])

\* The companies that pass every active filter.
CompaniesPassing(nameFilter, minEmployees, maxEmployees) ==
    { h \in DOMAIN companies :
        /\ Truthy(nameFilter) => ContainsNoCase(companies[h].name.v, nameFilter.v)
        /\ Truthy(minEmployees) =>
              companies[h].num_employees.t = "num"
              /\ companies[h].num_employees.v >= minEmployees.v
        /\ Truthy(maxEmployees) =>
              companies[h].num_employees.t = "num"
              /\ companies[h].num_employees.v <= maxEmployees.v }

\* rows is exactly the companies `passing`, each once, ordered by name.
ListsCompanies(rows, passing) ==
    /\ Len(rows) = Cardinality(passing)
    /\ { rows[i].handle.v : i \in 1..Len(rows) } = passing
    /\ \A i \in 1..Len(rows) : rows[i] = CompanyOf(companies, rows[i].handle.v)
    /\ \A i, j \in 1..Len(rows) : i < j => TextLeq(rows[i].name.v, rows[j].name.v)

\* C9: Company.findAll returns exactly the companies that pass all active
\* filters (name contains the filter whatever the letter case, numEmployees
\* between the bounds, both inclusive), each once, ordered by name; with no
\* active filter, every company.
C9_ListsCompaniesPassingFilters ==
    (last.op = "Company.findAll" /\ last.err = "none") =>
        /\ ListsCompanies(last.ret,
                          CompaniesPassing(last.data[1], last.data[2], last.data[3]))
        /\ (\A i \in 1..3 : ~Truthy(last.data[i])) =>
              { last.ret[i].handle.v : i \in 1..Len(last.ret) } = DOMAIN companies

\* A filter with no character the store's pattern matching treats specially.
PatternFree(filter) ==
    Truthy(filter) => \A i \in 1..Len(filter.v) : filter.v[i] \notin {"%", "_"}

\* C9 for name filters free of % and _.
C9_PatternFreeFilters ==
    (last.op = "Company.findAll" /\ last.err = "none" /\ PatternFree(last.data[1])) =>
        /\ ListsCompanies(last.ret,
                          CompaniesPassing(last.data[1], last.data[2], last.data[3]))
        /\ (\A i \in 1..3 : ~Truthy(last.data[i])) =>
              { last.ret[i].handle.v : i \in 1..Len(last.ret) } = DOMAIN companies

\* The jobs that pass every active filter.
JobsPassing(titleFilter, minSalary, hasEquity) ==
    { id \in DOMAIN jobs :
        /\ Truthy(titleFilter) => ContainsNoCase(jobs[id].title.v, titleFilter.v)
        /\ Truthy(minSalary) =>
              jobs[id].salary.t = "num" /\ jobs[id].salary.v >= minSalary.v
        /\ hasEquity = Bool(TRUE) => NumericPositive(jobs[id].equity) }

\* rows is exactly the jobs `passing`, each once, ordered by id.
ListsJobs(rows, passing) ==
    /\ Len(rows) = Cardinality(passing)
    /\ { rows[i].id.v : i \in 1..Len(rows) } = passing
    /\ \A i \in 1..Len(rows) : rows[i] = JobOf(jobs, rows[i].id.v)
    /\ \A i, j \in 1..Len(rows) : i < j => rows[i].id.v < rows[j].id.v

\* C10: Job.findAll returns exactly the jobs that pass all active filters
\* (title contains titleFilter whatever the letter case, salary >= minSalary,
\* equity > 0 when hasEquity is true), each once, ordered by id; with no
\* active filter, every job.
C10_ListsJobsPassingFilters ==
    (last.op = "Job.findAll" /\ last.err = "none") =>
        /\ ListsJobs(last.ret, JobsPassing(last.data[1], last.data[2], last.data[3]))
        /\ (\A i \in 1..3 : ~Truthy(last.data[i])) =>
              { last.ret[i].id.v : i \in 1..Len(last.ret) } = DOMAIN jobs

\* C10 for title filters free of % and _.
C10_PatternFreeFilters ==
    (last.op = "Job.findAll" /\ last.err = "none" /\ PatternFree(last.data[1])) =>
        /\ ListsJobs(last.ret, JobsPassing(last.data[1], last.data[2], last.data[3]))
        /\ (\A i \in 1..3 : ~Truthy(last.data[i])) =>
              { last.ret[i].id.v : i \in 1..Len(last.ret) } = DOMAIN jobs

\* A header whose credential verifies: a token signed with the server's key,
\* bare or behind "Bearer ".
Verifiable(authorization) ==
    /\ authorization \notin {Undefined, Str("")}
    /\ authorization.prefix \in {"Bearer ", "bearer ", ""}
    /\ authorization.token.key = SECRET_KEY

\* The routes that create, change or delete a company or a job.
AdminOnly(route) ==
    route \in {"POST /companies", "PATCH /companies/:handle", "DELETE /companies/:handle",
               "POST /jobs", "PATCH /jobs/:id", "DELETE /jobs/:id"}

StoreUnchanged == UNCHANGED <<companies, jobs, jobIdSeq>>

\* The request came with a credential that verifies to an admin's identity.
FromAdmin ==
    /\ Verifiable(http.authorization)
    /\ http.authorization.token.payload.isAdmin = TRUE

C5_AuthenticateNeverFails ==
    last.op = "authenticateJWT" =>
        /\ last.out.next = "none"
        /\ last.out.locals.user # Undefined <=> Verifiable(last.authorization)
        /\ Verifiable(last.authorization) =>
              last.out.locals.user = last.authorization.token.payload

\* A credential signed with another key: no identity, no error.
C5_Witness ==
    /\ last.op = "authenticateJWT"
    /\ last.authorization \notin {Undefined, Str("")}
    /\ last.authorization.prefix = "Bearer "
    /\ last.authorization.token.key # SECRET_KEY
    /\ last.out.next = "none"
    /\ last.out.locals.user = Undefined

\* C6: ensureLoggedInAsAdmin fails with UnauthorizedError exactly when no
\* identity is attached or the identity's isAdmin is false, and otherwise
\* calls next() with no error.
C6_AdminOrUnauthorized ==
    last.op = "ensureLoggedInAsAdmin" =>
        LET refused == \/ last.locals.user = Undefined
                       \/ last.locals.user.isAdmin = FALSE
        IN  /\ refused => last.next = "UnauthorizedError"
            /\ ~refused => last.next = "none"

\* An identity that is not an admin's is refused.
C6_Witness ==
    /\ last.op = "ensureLoggedInAsAdmin"
    /\ last.locals.user # Undefined
    /\ ~last.locals.user.isAdmin
    /\ last.next = "UnauthorizedError"

\* C7: ensureUserRights passes exactly when an identity is attached and it is
\* an admin's or its username is the one in the path; otherwise it fails
\* with UnauthorizedError.
C7_SelfOrAdmin ==
    last.op = "ensureUserRights" =>
        LET allowed == /\ last.locals.user # Undefined
                       /\ \/ last.locals.user.isAdmin = TRUE
                          \/ last.locals.user.username = last.username
        IN  /\ allowed => last.next = "none"
            /\ ~allowed => last.next = "UnauthorizedError"

\* A user who is no admin reaches their own path.
C7_Witness ==
    /\ last.op = "ensureUserRights"
    /\ last.locals.user # Undefined
    /\ ~last.locals.user.isAdmin
    /\ last.locals.user.username = last.username
    /\ last.next = "none"

(***************************************************************************)
(* The list routes and their filters                                       *)
(***************************************************************************)
TrueText == Text(<<"t", "r", "u", "e">>)
FalseText == Text(<<"f", "a", "l", "s", "e">>)

\* The bodies GET /jobs answers query with in the current store.
JobsBodies(query) == { Response(l.out).body : l \in JobsGet(companies, jobs, query) }

\* C11: on GET /jobs, hasEquity=true returns only the jobs with equity > 0
\* among those passing the other filters; hasEquity omitted or
\* hasEquity=false returns all jobs passing the other filters.
C11_HasEquityFromQueryString ==
    (last.op = "GET /jobs" /\ last.err = "none") =>
        LET hasEquity == Get(last.query, "hasEquity")
            others == JobsBodies(DeleteKey(last.query, "hasEquity"))
        IN  /\ hasEquity = TrueText =>
                 \E all \in others :
                    last.response.body = SelectSeq(all, LAMBDA j : NumericPositive(j.equity))
            /\ hasEquity \in {Undefined, FalseText} => last.response.body \in others

\* C11 with hasEquity=false left out: hasEquity=true restricts to equity > 0,
\* and hasEquity omitted restricts nothing.
C11_HasEquityTrueOrOmitted ==
    (last.op = "GET /jobs" /\ last.err = "none") =>
        LET hasEquity == Get(last.query, "hasEquity")
            others == JobsBodies(DeleteKey(last.query, "hasEquity"))
        IN  /\ hasEquity = TrueText =>
                 \E all \in others :
                    last.response.body = SelectSeq(all, LAMBDA j : NumericPositive(j.equity))
            /\ hasEquity = Undefined => last.response.body \in others

\* The arguments args with the i-th left out.
Omitting(args, i) == [args EXCEPT ![i] = Undefined]
Result(out) == [err |-> out.err, ret |-> out.ret]

\* C12: a filter argument of findAll that is present but falsy gives the
\* outcome of the same call with the argument omitted.
C12_FalsyIsOmitted ==
    last.op = "Company.findAll" =>
        \A i \in 1..3 :
            (last.data[i] # Undefined /\ ~Truthy(last.data[i])) =>
                LET args == Omitting(last.data, i)
                IN  Result(last) \in
                      { Result(out) :
                        out \in CompanyFindAll(companies, jobs, args[1], args[2], args[3]) }

\* C12 for Job.findAll alone.
C12_JobFalsyIsOmitted ==
    last.op = "Job.findAll" =>
        \A i \in 1..3 :
            (last.data[i] # Undefined /\ ~Truthy(last.data[i])) =>
                LET args == Omitting(last.data, i)
                IN  Result(last) \in
                      { Result(out) :
                        out \in JobFindAll(companies, jobs, args[1], args[2], args[3]) }

\* The responses a list route gives query in the current store.
CompaniesResponses(query) ==
    { Response(l.out) : l \in CompaniesGet(companies, jobs, query) }
JobsResponses(query) == { Response(l.out) : l \in JobsGet(companies, jobs, query) }

\* C13: GET /companies with minEmployees=0 or maxEmployees=0, and GET /jobs
\* with minSalary=0, answer as the request without that parameter does.
C13_ZeroIsNoFilter ==
    /\ last.op = "GET /companies" =>
          \A k \in {"minEmployees", "maxEmployees"} :
              Get(last.query, k) = Text(<<"0">>) =>
                  last.response \in CompaniesResponses(DeleteKey(last.query, k))
    /\ last.op = "GET /jobs" =>
          (Get(last.query, "minSalary") = Text(<<"0">>) =>
              last.response \in JobsResponses(DeleteKey(last.query, "minSalary")))

\* A key of the query outside known.
HasUnknown(query, known) == \E i \in 1..Len(query) : query[i][1] \notin known

NumberText(x) ==
    /\ x.t = "text"
    /\ Len(x.v) > 0
    /\ \A i \in 1..Len(x.v) : x.v[i] \in {"0", "1", "2", "3", "4", "5", "6", "7", "8", "9"}

\* C15: a list request whose minEmployees, maxEmployees or minSalary is not
\* the text of a number (the empty string and a repeated parameter
\* included) is answered 400 (BadRequestError) and findAll is not called.
C15_NonNumericRejected ==
    (/\ last.op \in {"GET /companies", "GET /jobs"}
     /\ \E k \in {"minEmployees", "maxEmployees", "minSalary"} :
           HasKey(last.query, k) /\ ~NumberText(Get(last.query, k))) =>
        /\ last.err = "BadRequestError"
        /\ last.response.status = 400
        /\ last.calls = <<>>

(***************************************************************************)
(* get, update, remove and create of one record                            *)
(***************************************************************************)
\* C16: Company.get and Job.get throw NotFoundError exactly when the store
\* holds no record with the key, and otherwise return the record of that
\* key with the field values stored.
C16_GetByKey ==
    /\ last.op = "Company.get" =>
          /\ last.err = "NotFoundError" <=> last.key \notin DOMAIN companies
          /\ last.key \in DOMAIN companies =>
                LET row == companies[last.key] IN
                /\ last.err = "none"
                /\ last.ret.handle = Str(last.key)
                /\ last.ret.name = row.name
                /\ last.ret.description = row.description
                /\ last.ret.numEmployees = row.num_employees
                /\ last.ret.logoUrl = row.logo_url
    /\ last.op = "Job.get" =>
          /\ last.err = "NotFoundError" <=> last.key \notin DOMAIN jobs
          /\ last.key \in DOMAIN jobs =>
                LET row == jobs[last.key] IN
                /\ last.err = "none"
                /\ last.ret = [id |-> Num(last.key), title |-> row.title,
                               salary |-> row.salary, equity |-> row.equity,
                               companyHandle |-> row.company_handle]

\* A job whose salary was set to null is fetched with the null salary.
C16_Witness ==
    /\ last.op = "Job.get"
    /\ last.err = "none"
    /\ last.ret.salary = Null
    /\ 2 \notin DOMAIN jobs

C17_NoJobs ==
    /\ last.op = "Company.get"
    /\ last.err = "none"
    /\ last.ret.jobs = <<>>
    /\ jobs # <<>>

\* C18: an update whose effective data is not empty throws NotFoundError
\* when no record has the key, and then no record is created or modified.
C18_UpdateOfMissingKey ==
    [][(/\ IsUpdate(last'.op)
        /\ last.op = "none"
        /\ Len(Written(last'.op, last'.data)) > 0
        /\ last'.key \notin (IF last'.op = "Company.update"
                             THEN DOMAIN companies ELSE DOMAIN jobs)) =>
          /\ last'.err = "NotFoundError"
          /\ companies' = companies
          /\ jobs' = jobs]_vars

\* A job update naming a title and a companyHandle, on an id no job has.
C18_Witness ==
    /\ last.op = "Job.update"
    /\ last.key \notin DOMAIN jobs
    /\ HasKey(last.data, "title")
    /\ HasKey(last.data, "companyHandle")
    /\ last.err = "NotFoundError"

\* C19: remove throws NotFoundError and leaves the store as it was when no
\* record has the key; otherwise it deletes that record and no other of its
\* table (Job.remove keeps every other job), and a following get or remove
\* of the key throws NotFoundError.
C19_RemoveByKey ==
    [][/\ (last.op = "none" /\ last'.op = "Company.remove") =>
             LET key == last'.key IN
             IF key \notin DOMAIN companies
             THEN /\ last'.err = "NotFoundError"
                  /\ companies' = companies
                  /\ jobs' = jobs
             ELSE /\ last'.err = "none"
                  /\ DOMAIN companies' = DOMAIN companies \ {key}
                  /\ \A h \in DOMAIN companies' : companies'[h] = companies[h]
                  /\ CompanyGet(companies', jobs', Str(key)).err = "NotFoundError"
                  /\ CompanyRemove(companies', jobs', Str(key)).err = "NotFoundError"
       /\ (last.op = "none" /\ last'.op = "Job.remove") =>
             LET key == last'.key IN
             IF key \notin DOMAIN jobs
             THEN /\ last'.err = "NotFoundError"
                  /\ companies' = companies
                  /\ jobs' = jobs
             ELSE /\ last'.err = "none"
                  /\ companies' = companies
                  /\ DOMAIN jobs' = DOMAIN jobs \ {key}
                  /\ \A i \in DOMAIN jobs' : jobs'[i] = jobs[i]
                  /\ JobGet(companies', jobs', Num(key)).err = "NotFoundError"
                  /\ JobRemove(companies', jobs', Num(key)).err = "NotFoundError"]_vars

\* Job 1 removed while job 2 stays.
C19_Witness ==
    /\ last.op = "Job.remove"
    /\ last.key = 1
    /\ last.err = "none"
    /\ DOMAIN jobs = {2}

\* C20: Company.create with a handle the store holds throws BadRequestError,
\* inserts nothing and leaves that company as it was; with a new handle it
\* inserts one company and returns the record with the handle and values
\* given.
C20_CreateChecksHandle ==
    [][(last.op = "none" /\ last'.op = "Company.create") =>
          LET key == last'.key
              data == last'.data
          IN  IF key \in DOMAIN companies
              THEN /\ last'.err = "BadRequestError"
                   /\ companies' = companies
                   /\ jobs' = jobs
              ELSE /\ last'.err = "none"
                   /\ DOMAIN companies' = DOMAIN companies \cup {key}
                   /\ \A h \in DOMAIN companies : companies'[h] = companies[h]
                   /\ jobs' = jobs
                   /\ last'.ret = data
                   /\ CompanyOf(companies', key) = data]_vars

\* A duplicate of c1, whose numEmployees had been set to null.
C20_Witness ==
    /\ last.op = "Company.create"
    /\ last.key = "c1"
    /\ last.err = "BadRequestError"
    /\ companies["c1"].num_employees = Null

(***************************************************************************)
(* Invariants of updates; the text of the compiled clauses                 *)
(***************************************************************************)
JobUpdated == last.op = "none" /\ last'.op = "Job.update"

C25_ValuesNotInClause ==
    (last.op = "sqlForPartialUpdate" /\ last.out.err = "none") =>
        LET N == Len(last.data)
            WithValues(vs) == [i \in 1..N |-> <<last.data[i][1], vs[i]>>]
        IN  /\ \A vs \in [1..N -> SqlValues] :
                  SqlForPartialUpdate(WithValues(vs), last.jsToSql).setCols = last.out.setCols
            /\ \A n \in 1..Len(last.out.setCols) :
                  \/ last.out.setCols[n] \in {EqSign, CommaSpace}
                  \/ \E i \in 1..N : last.out.setCols[n] = Param(i)
                  \/ \E c \in SqlKeys \cup SqlColumns : last.out.setCols[n] = Ident(c)
            /\ last.out.values = [i \in 1..N |-> last.data[i][2]]

\* Two fields given a text and a number.
C25_Witness ==
    /\ last.op = "sqlForPartialUpdate"
    /\ last.out.err = "none"
    /\ Len(last.data) = 2
    /\ last.data[1][2] = Str("x")
    /\ last.data[2][2] = Num(25)

\* The filters of a findAll in their declared order: column, operator,
\* whether the condition takes a placeholder, and the argument it passes.
CompanyFilters(data) ==
    <<[value |-> data[1], col |-> "name", op |-> "ILIKE", placed |-> TRUE],
      [value |-> data[2], col |-> "num_employees", op |-> ">=", placed |-> TRUE],
      [value |-> data[3], col |-> "num_employees", op |-> "<=", placed |-> TRUE]>>
JobFilters(data) ==
    <<[value |-> data[1], col |-> "title", op |-> "ILIKE", placed |-> TRUE],
      [value |-> data[2], col |-> "salary", op |-> ">=", placed |-> TRUE],
      [value |-> data[3], col |-> "equity", op |-> ">", placed |-> FALSE]>>

\* The argument a filter passes for its value.
ArgumentOf(op, filter) ==
    IF filter.op = "ILIKE" THEN Text(<<"%">> \o filter.value.v \o <<"%">>)
    ELSE IF op = "Job.findAll" /\ filter.value.t = "num" THEN Text(Decimal(filter.value.v))
    ELSE filter.value

WellFormedClause(op, filters, q) ==
    LET active == SelectSeq(filters, LAMBDA f : Truthy(f.value))
        placed == SelectSeq(active, LAMBDA f : f.placed)
        Rank(n) == Len(SelectSeq(SubSeq(active, 1, n), LAMBDA f : f.placed))
    IN  /\ Len(q.whereClause) = 2 * Len(active)
        /\ \A n \in 1..Len(active) :
              /\ q.whereClause[2 * n - 1] = IF n = 1 THEN Where ELSE And
              /\ q.whereClause[2 * n].k = "cond"
              /\ q.whereClause[2 * n].col = active[n].col
              /\ q.whereClause[2 * n].op = active[n].op
              /\ q.whereClause[2 * n].arg = IF active[n].placed THEN Param(Rank(n)) ELSE Zero
        /\ Len(q.args) = Len(placed)
        /\ \A i \in 1..Len(placed) : q.args[i] = ArgumentOf(op, placed[i])

\* C26: the clause findAll assembles is empty with no active filter, and
\* otherwise is WHERE and then one AND for each further active filter, the
\* filters in the order name/title, min, max/equity; its placeholders are
\* $1..$k in order, k the length of the argument list, and $i stands with
\* the filter whose value is the i-th argument; hasEquity takes neither a
\* placeholder nor an argument.
C26_ClauseMatchesArguments ==
    /\ (last.op = "Company.findAll" /\ last.err = "none") =>
          WellFormedClause(last.op, CompanyFilters(last.data),
                           CompanyFindAllQuery(Default(last.data[1], Null),
                                               Default(last.data[2], Null),
                                               Default(last.data[3], Null)))
    /\ (last.op = "Job.findAll" /\ last.err = "none") =>
          WellFormedClause(last.op, JobFilters(last.data),
                           JobFindAllQuery(Default(last.data[1], Null),
                                           Default(last.data[2], Null),
                                           Default(last.data[3], Null)))

\* A title filter, no salary filter and hasEquity: WHERE ... AND equity > 0.
C26_Witness ==
    /\ last.op = "Job.findAll"
    /\ last.err = "none"
    /\ Truthy(last.data[1])
    /\ ~Truthy(last.data[2])
    /\ last.data[3] = Bool(TRUE)
    /\ Len(JobFindAllQuery(last.data[1], Null, last.data[3]).whereClause) = 4

JobUpdateOfHandleOnly ==
    /\ JobUpdated
    /\ Len(last'.data) = 1
    /\ last'.data[1][1] = "companyHandle"

\* C29: a Job.update whose data holds companyHandle and nothing else throws
\* BadRequestError for every id, of a job or not, and changes nothing.
C29_HandleOnlyIsNoData ==
    [][JobUpdateOfHandleOnly =>
          /\ last'.err = "BadRequestError"
          /\ last'.queries = 0
          /\ companies' = companies
          /\ jobs' = jobs]_vars

\* Job 1, an existing job, updated with companyHandle c2 alone.
C29_Witness ==
    /\ last.op = "Job.update"
    /\ last.key = 1
    /\ last.data = <<<<"companyHandle", Str("c2")>>>>
    /\ last.err = "BadRequestError"
    /\ jobs[1].company_handle = Str("c1")

\* C24: a Job.create that succeeds returns the created record under an id
\* no job of the store had, adds that one job and changes no other record;
\* Job.get of the returned id then returns the same record.
C24_CreateAssignsFreshId ==
    [][(last.op = "none" /\ last'.op = "Job.create" /\ last'.err = "none") =>
          LET id == last'.ret.id.v IN
          /\ id \notin DOMAIN jobs
          /\ DOMAIN jobs' = DOMAIN jobs \cup {id}
          /\ \A i \in DOMAIN jobs : jobs'[i] = jobs[i]
          /\ companies' = companies
          /\ last'.ret.title = last'.data.title
          /\ last'.ret.companyHandle = last'.data.companyHandle
          /\ JobGet(companies', jobs', last'.ret.id).err = "none"
          /\ JobGet(companies', jobs', last'.ret.id).ret = last'.ret]_vars

\* A job created after job 1 had been removed.
C24_Witness ==
    /\ last.op = "Job.create"
    /\ last.err = "none"
    /\ last.ret.id = Num(3)
    /\ DOMAIN jobs = {2, 3}

Open(route) ==
    route \in {"GET /companies", "GET /companies/:handle", "GET /jobs", "GET /jobs/:id"}

\* What an open route answers in a store, from the path and query alone.
OpenResponses(cs, js, route, param, query) ==
    CASE route = "GET /companies" -> { Response(l.out) : l \in CompaniesGet(cs, js, query) }
      [] route = "GET /jobs" -> { Response(l.out) : l \in JobsGet(cs, js, query) }
      [] route = "GET /companies/:handle" -> { Response(CompanyGet(cs, js, param)) }
      [] route = "GET /jobs/:id" -> { Response(JobGet(cs, js, param)) }

\* C30: a request to an open route changes nothing in the store and is
\* answered from the store, the path and the query alone, whether it
\* carries no credential, an invalid one, a user's or an admin's.
C30_OpenRoutes ==
    [][(http'.pc # "idle" /\ Open(http'.route)) =>
          /\ StoreUnchanged
          /\ http'.pc = "done" =>
                [status |-> http'.status,
                 body |-> IF last'.op = "none" THEN Undefined ELSE last'.ret]
                  \in OpenResponses(companies', jobs', http'.route, http'.param,
                                    http'.query)]_vars

\* GET /jobs under a credential that does not verify, after job 1 was removed.
C30_Witness ==
    /\ http.pc = "done"
    /\ http.route = "GET /jobs"
    /\ http.query = <<>>
    /\ http.authorization # Undefined
    /\ http.authorization.token.key # SECRET_KEY
    /\ http.status = 200
    /\ DOMAIN jobs = {2}

(***************************************************************************)
(* Calls running at the same time                                          *)
(***************************************************************************)
Done(p, op) == calls[p].pc = "done" /\ calls[p].op = op

\* C21: when every request creates a company of the same handle, which no
\* company has, whatever the order of their statements, one of them
\* creates the company and each of the others fails with BadRequestError.
C21_OneCreatesOthersDuplicate ==
    \A handle \in CreateHandles \ DOMAIN FixtureCompanies :
        (\A p \in Procs : Done(p, "Company.create") /\ calls[p].key = handle) =>
            /\ Cardinality({ p \in Procs : calls[p].err = "none" }) = 1
            /\ \A p \in Procs : calls[p].err \in {"none", "BadRequestError"}

\* C22: under every interleaving of the statements of create, update and
\* remove calls the tables keep one row for a key: a create succeeds only
\* with a handle, or an id, that no row had, and an update leaves the keys
\* of both tables as they were.
C22_KeysStayUnique ==
    [][\A p \in Procs :
          (calls[p].pc # "done" /\ calls'[p].pc = "done" /\ calls'[p].err = "none") =>
              /\ calls'[p].op = "Company.create" =>
                    /\ calls'[p].key \notin DOMAIN companies
                    /\ DOMAIN companies' = DOMAIN companies \cup {calls'[p].key}
                    /\ DOMAIN jobs' = DOMAIN jobs
              /\ calls'[p].op = "Job.create" =>
                    /\ calls'[p].ret.id.v \notin DOMAIN jobs
                    /\ DOMAIN jobs' = DOMAIN jobs \cup {calls'[p].ret.id.v}
                    /\ DOMAIN companies' = DOMAIN companies
              /\ calls'[p].op \in {"Company.update", "Job.update"} =>
                    /\ DOMAIN companies' = DOMAIN companies
                    /\ DOMAIN jobs' = DOMAIN jobs]_vars

\* Two creates of one handle that both passed the pre-check: the store
\* refused the second insert.
C22_Witness ==
    \E p, q \in Procs :
        /\ p # q
        /\ Done(p, "Company.create") /\ Done(q, "Company.create")
        /\ calls[p].key = "c3" /\ calls[q].key = "c3"
        /\ calls[p].err = "none"
        /\ calls[q].err = "unique_violation"
        /\ "c3" \in DOMAIN companies

\* The company and jobs some state of the store holds together.
Coexisted(ret, handle) ==
    \E s \in history :
        /\ handle \in DOMAIN s.companies
        /\ ret = CompanyOf(s.companies, handle) @@
                   [jobs |-> [n \in DOMAIN ret.jobs |->
                                 LET id == ret.jobs[n].id.v IN
                                 IF id \in DOMAIN s.jobs
                                 THEN JobSummary([key |-> id, row |-> s.jobs[id]])
                                 ELSE Undefined]]
        /\ { ret.jobs[n].id.v : n \in DOMAIN ret.jobs } =
             { i \in DOMAIN s.jobs : s.jobs[i].company_handle = Str(handle) }

\* C27: Company.get returns the company row as its first statement read it
\* and the jobs as its second statement read them, with no transaction
\* around the two; when nothing was written between them the store held
\* both together, and a call writing between them (Company.remove here)
\* makes get return a company and jobs that no state of the store ever
\* held together.
C27_TwoSeparateReads ==
    \A p \in Procs :
        (Done(p, "Company.get") /\ calls[p].err = "none") =>
            LET call == calls[p] IN
            /\ call.key \in DOMAIN call.first.companies
            /\ [f \in DOMAIN call.ret \ {"jobs"} |-> call.ret[f]] =
                 CompanyOf(call.first.companies, call.key)
            /\ { call.ret.jobs[n].id.v : n \in DOMAIN call.ret.jobs } =
                 { i \in DOMAIN call.second.jobs :
                     call.second.jobs[i].company_handle = Str(call.key) }
            /\ call.first = call.second => Coexisted(call.ret, call.key)

\* A company returned without the job it had as long as it existed.
C27_Witness ==
    \E p \in Procs :
        /\ Done(p, "Company.get")
        /\ calls[p].err = "none"
        /\ ~Coexisted(calls[p].ret, calls[p].key)

====
